---- MODULE Spec2Model ----
(***************************************************************************)
(* Model of cox-status.py: the CoxInternetUsage session handling           *)
(* (_create_session, _do_login, _get_with_auth), get_usage_data,           *)
(* process_data, publish_data and the poll loop of main.                   *)
(*                                                                         *)
(* The program is sequential: `pc` is the position of the single process.  *)
(* The portal, the metrics sink and the disk are the environment: every    *)
(* request is answered nondeterministically (network error, any status,    *)
(* any body, any cookies set).                                             *)
(***************************************************************************)
EXTENDS Integers, Sequences, FiniteSets, TLC

VARIABLES
    pc,             \* position of the process
    cookie_jar,     \* self.cookie_jar (the same object as self.session.cookies)
    cookie_file,    \* content of the file 'cox-status.bin'
    saved,          \* history: the in-memory jar at the last completed pickle.dump
    writer,         \* history: who produced the current content of cookie_file
    boot,           \* history: outcome of the start-up load, during the first cycle
    url,            \* _get_with_auth: the url argument
    response,       \* _get_with_auth: the local `response`
    first,          \* history: the first response of the current _get_with_auth call
    gets,           \* history: GET attempts for `url` in the current _get_with_auth call
    logins,         \* history: _do_login invocations in the current _get_with_auth call
    logged_in,      \* _get_with_auth: the local `logged_in`
    loginFail,      \* history: why the current/last _do_login did not succeed
    results,        \* _do_login: keys of the local dict `results`
    session_token,  \* _do_login: whether the local `session_token` is bound
    data,           \* main: the usage payload
    summary,        \* main: the summary payload
    records,        \* main: the list returned by process_data
    session_reset,  \* history: process_data called _create_session(False) in this cycle
    processed,      \* history: how process_data ended in this cycle
    published,      \* history: the publish_data call of this cycle
    sleep_secs,     \* argument of the time.sleep in progress, 0 when not sleeping
    exc,            \* the exception in flight / last raised in this cycle
    reset_pending,  \* history: the previous cycle reset the session and the first
                    \* _get_with_auth of this cycle has not returned yet
    today,          \* process_data: datetime.datetime.now()
    summary_data,   \* process_data: summary['modemDetails'][0]
    usage_data,     \* process_data: data['modemGraphDetails'][0]['graphData']
    service_start,  \* process_data: the local `service_start`
    service_end     \* process_data: the local `service_end`

diskVars  == <<cookie_file, saved, writer>>
gwaVars   == <<url, response, first, gets, logins, logged_in>>
loginVars == <<loginFail, results, session_token>>
cycleVars == <<data, summary, records, session_reset, processed, published, reset_pending>>
normVars  == <<today, summary_data, usage_data, service_start, service_end>>
vars == <<pc, cookie_jar, boot, sleep_secs, exc, diskVars, gwaVars, loginVars, cycleVars, normVars>>

----------------------------------------------------------------------------
(* Bounds *)

\* largest number of daily entries that precede today's entry in a series
MaxDays == 1

\* largest length of a graphData series given to process_data
MaxSeries == 3

\* the year of datetime.datetime.now()
CurrentYear == 2025

----------------------------------------------------------------------------
(* Cookies, the cookie file and pickle *)

\* the login-marker cookie looked up by _do_login
MarkerCookie == [name |-> "_cidt", domain |-> ".cox.com", discard |-> FALSE]

\* cookies the portal may set: the marker, a cookie of the same name for
\* another domain, and a session (discard) cookie of the identity provider
Cookies ==
    { MarkerCookie,
      [name |-> "_cidt", domain |-> "login.cox.com", discard |-> FALSE],
      [name |-> "JSESSIONID", domain |-> "login.cox.com", discard |-> TRUE] }

\* RequestsCookieJar(): a new empty jar
RequestsCookieJar == {}

\* a cookie-file writer that leaves out session (discard) cookies
pickle_dump_nodiscard(jar) ==
    LET kept == {c \in jar : ~c.discard}
    IN [d \in {c.domain : c \in kept} |->
            {[name |-> c.name, discard |-> c.discard] : c \in {x \in kept : x.domain = d}}]

\* pickle.dump(self.cookie_jar, f): the jar's nested dict, domain -> cookies
pickle_dump(jar) ==
    [d \in {c.domain : c \in jar} |->
        {[name |-> c.name, discard |-> c.discard] : c \in {x \in jar : x.domain = d}}]

\* pickle.load(f): rebuilds the jar from the nested dict
pickle_load(blob) ==
    UNION { {[name |-> e.name, domain |-> d, discard |-> e.discard] : e \in blob[d]}
            : d \in DOMAIN blob }

EmptyBlob == pickle_dump(RequestsCookieJar)

FileAbsent  == [kind |-> "absent",  blob |-> EmptyBlob]
FileCorrupt == [kind |-> "corrupt", blob |-> EmptyBlob]
PickleFile(jar) == [kind |-> "pickle", blob |-> pickle_dump(jar)]

\* the exception raised by open(...)/pickle.load(...) in _create_session
LoadError(file) ==
    CASE file.kind = "absent"  -> "FileNotFoundError"
      [] file.kind = "corrupt" -> "UnpicklingError"
      [] OTHER                 -> "none"

\* the exception classes that occur; all are subclasses of Exception
ExceptionTypes ==
    { "HTTPError", "ConnectionError", "JSONDecodeError", "KeyError", "TypeError",
      "ValueError", "OSError", "FileNotFoundError", "UnpicklingError",
      "InfluxError" }

NoExc == [type |-> "none", site |-> "none"]

\* a handler that only expects the file to be missing
CreateSessionCatchesMissing(e) == e = "FileNotFoundError"

\* `except Exception:` in _create_session
CreateSessionCatches(e) == e \in ExceptionTypes

\* `except requests.HTTPError as e:` in _do_login
LoginCatches(e) == e = "HTTPError"

\* a handler that only expects request errors
MainCatchesRequests(e) == e \in {"HTTPError", "ConnectionError", "JSONDecodeError"}

\* `except Exception as e:` in main
MainCatches(e) == e \in ExceptionTypes

\* time.sleep(60 * 60) and time.sleep(5 * 60) in main
SleepLong  == 60 * 60
SleepShort == 5 * 60

----------------------------------------------------------------------------
(* HTTP responses *)

\* body "signin": contains 'Sign In to Your Cox Account';
\* body "payload": the JSON / the page with the data-usage-url attribute;
\* body "other": anything else
\* a payload body is only ever read from a response with status 200
Responses ==
    {r \in [status : {200, 401, 500}, body : {"signin", "payload", "other"}] :
        r.body = "payload" => r.status = 200}
NoResponse == [status |-> 0, body |-> "none"]

\* the condition of the `if` in _get_with_auth
NeedsAuth(resp) == resp.status = 401 \/ resp.body = "signin"

\* a status check that only treats 401 as an error
RaisesForStatus401(resp) == resp.status = 401

\* response.raise_for_status() raises HTTPError
RaisesForStatus(resp) == resp.status >= 400

\* a retry that authenticates again when the retried GET is rejected too
AfterRetryLoop(resp) == IF NeedsAuth(resp) THEN "login_clear" ELSE "gwa_status"

\* after the retried GET control goes to the final raise_for_status
AfterRetry(resp) == "gwa_status"

\* a lookup of the marker cookie by name only
HasLoginCookieAnyDomain(jar) == \E c \in jar : c.name = "_cidt"

\* self.cookie_jar.get('_cidt', None, domain='.cox.com') is not None
HasLoginCookie(jar) == \E c \in jar : c.name = "_cidt" /\ c.domain = ".cox.com"

\* the constants _do_login looks for in the login script
Keys == {"client_id", "scope", "base_url", "issuer"}

\* the constants the authorize URI is built from
UriKeys == {"issuer", "client_id"}

\* the sets of constants a login script may define
ScriptConstants == {Keys, Keys \ {"issuer"}, Keys \ {"client_id"}, Keys \ {"scope"}, {}}

----------------------------------------------------------------------------
(* Payloads *)

Errors ==
    { [isNull |-> TRUE,  errorCode |-> "null", errorMessage |-> "null"],
      [isNull |-> FALSE, errorCode |-> "null", errorMessage |-> "null"],
      [isNull |-> FALSE, errorCode |-> "E",    errorMessage |-> "null"],
      [isNull |-> FALSE, errorCode |-> "null", errorMessage |-> "M"],
      [isNull |-> FALSE, errorCode |-> "E",    errorMessage |-> "M"] }

\* the payloads with errorFlag false carry error = null or a full error object
ErrorsOf(flag) ==
    IF flag THEN Errors
    ELSE {e \in Errors : e.isNull \/ (e.errorCode = "E" /\ e.errorMessage = "M")}

\* detail "missing": the details key is absent; "malformed": a size or date
\* string in it does not parse; "nodate": usageDate does not match
\* 'Usage as of (.*)'; days: the entries of graphData that precede today's
NoPayload == [hasFlag |-> FALSE, errorFlag |-> FALSE,
              error |-> [isNull |-> TRUE, errorCode |-> "null", errorMessage |-> "null"],
              detail |-> "missing", days |-> 0]

SummaryPayloads ==
    { [hasFlag |-> TRUE, errorFlag |-> f, error |-> e, detail |-> d, days |-> 0] :
        f \in BOOLEAN, e \in Errors, d \in {"missing", "malformed", "nodate", "ok"} }

DataPayloads ==
    { [hasFlag |-> TRUE, errorFlag |-> f, error |-> e, detail |-> d, days |-> n] :
        f \in BOOLEAN, e \in Errors, d \in {"missing", "malformed", "ok"}, n \in 0..MaxDays }

\* the payloads drawn: an error payload has its details or has none, and
\* only a payload with details has entries
WellFormed(p) ==
    /\ p.error \in ErrorsOf(p.errorFlag)
    /\ p.errorFlag => p.detail \in {"missing", "ok"} /\ p.days = 0
    /\ p.detail \notin {"ok", "nodate"} => p.days = 0

----------------------------------------------------------------------------
(* process_data as a function of its arguments *)

\* the record lists are modelled by their measurement names
DailyRecords(n) == [i \in 1..n |-> "daily_usage"]

\* lines 167-177: the error code and message picked up from the payloads,
\* or the exception raised while looking
ErrorCheck(d, s) ==
    IF ~d.hasFlag THEN [raised |-> "KeyError", code |-> "null", msg |-> "null"]
    ELSE IF d.errorFlag THEN
        IF d.error.isNull THEN [raised |-> "TypeError", code |-> "null", msg |-> "null"]
        ELSE [raised |-> "none", code |-> d.error.errorCode, msg |-> d.error.errorMessage]
    ELSE IF ~s.hasFlag THEN [raised |-> "KeyError", code |-> "null", msg |-> "null"]
    ELSE IF s.errorFlag THEN
        IF s.error.isNull THEN [raised |-> "TypeError", code |-> "null", msg |-> "null"]
        ELSE [raised |-> "none", code |-> s.error.errorCode, msg |-> s.error.errorMessage]
    ELSE [raised |-> "none", code |-> "null", msg |-> "null"]

\* lines 186-271: the records of a cycle without a detected error, or the
\* exception raised while computing them
Normalize(d, s) ==
    IF s.detail = "missing" THEN [raised |-> "KeyError", records |-> <<>>]
    ELSE IF s.detail = "malformed" THEN [raised |-> "ValueError", records |-> <<>>]
    ELSE IF d.detail = "missing" THEN [raised |-> "KeyError", records |-> <<>>]
    ELSE IF d.detail = "malformed" THEN [raised |-> "ValueError", records |-> <<>>]
    ELSE [raised |-> "none",
          records |-> <<"current_monthly_usage", "current_monthly_total", "cycle_days">>
                      \o DailyRecords(d.days)
                      \o (IF s.detail = "ok" THEN <<"last_update">> ELSE <<>>)]

\* process_data(data, summary): the exception raised ("none" when it
\* returns), the list returned, and whether _create_session(False) was called
process_data(d, s) ==
    LET chk == ErrorCheck(d, s) IN
    IF chk.raised # "none" THEN [raised |-> chk.raised, records |-> <<>>, reset |-> FALSE]
    ELSE IF chk.code # "null" /\ chk.msg # "null" THEN [raised |-> "none", records |-> <<>>, reset |-> TRUE]
    ELSE LET n == Normalize(d, s) IN [raised |-> n.raised, records |-> n.records, reset |-> FALSE]

----------------------------------------------------------------------------
(* The state machine *)

NotPublished == [called |-> FALSE, records |-> <<>>]

\* the locals of process_data before it runs
NoDate == [year |-> 0, month |-> 0, day |-> 0, hour |-> 0]
NoDetails == [usageCycle |-> "none", totalDataUsed |-> "none", dataPlan |-> "none",
              percentageDataUsed |-> 0, usageDate |-> "none"]

\* a reset that loads the cookie file again (restore_cookies left at its default)
JarAfterResetRestored(file) ==
    IF file.kind = "pickle" THEN pickle_load(file.blob) ELSE RequestsCookieJar

\* self._create_session(False): the else branch, a new empty jar
JarAfterReset(file) == RequestsCookieJar

\* a reset that also removes the cookie file
FileAfterResetRemoved(file) == FileAbsent

\* self._create_session(False) does not touch the cookie file
FileAfterReset(file) == file

\* cookie files an earlier run of the program can have left behind
InitialFiles ==
    {FileAbsent, FileCorrupt, PickleFile({MarkerCookie}), PickleFile(Cookies)}

Init ==
    /\ pc = "boot"
    /\ cookie_jar = RequestsCookieJar
    /\ cookie_file \in InitialFiles
    /\ saved = RequestsCookieJar
    /\ writer = "earlier"
    /\ boot = "none"
    /\ url = "none"
    /\ response = NoResponse
    /\ first = NoResponse
    /\ gets = 0
    /\ logins = 0
    /\ logged_in = "none"
    /\ loginFail = "none"
    /\ results = {}
    /\ session_token = FALSE
    /\ data = NoPayload
    /\ summary = NoPayload
    /\ records = <<>>
    /\ session_reset = FALSE
    /\ processed = "no"
    /\ published = NotPublished
    /\ sleep_secs = 0
    /\ exc = NoExc
    /\ reset_pending = FALSE
    /\ today = NoDate
    /\ summary_data = NoDetails
    /\ usage_data = <<>>
    /\ service_start = NoDate
    /\ service_end = NoDate

\* an exception that no handler below main catches
Raise(type, site) ==
    /\ pc' = "main_except"
    /\ exc' = [type |-> type, site |-> site]

\* the in-memory state of a process that has not run __init__ yet
ProcessCleared ==
    /\ cookie_jar' = RequestsCookieJar
    /\ boot' = "none"
    /\ url' = "none"
    /\ response' = NoResponse
    /\ first' = NoResponse
    /\ gets' = 0
    /\ logins' = 0
    /\ logged_in' = "none"
    /\ loginFail' = "none"
    /\ results' = {}
    /\ session_token' = FALSE
    /\ data' = NoPayload
    /\ summary' = NoPayload
    /\ records' = <<>>
    /\ session_reset' = FALSE
    /\ processed' = "no"
    /\ published' = NotPublished
    /\ sleep_secs' = 0
    /\ exc' = NoExc
    /\ reset_pending' = FALSE

\* __init__ -> _create_session(restore_cookies=True), then main enters the loop
Construct ==
    /\ pc = "boot"
    /\ UNCHANGED normVars
    /\ LET e == LoadError(cookie_file) IN
        IF e = "none" THEN
            /\ cookie_jar' = pickle_load(cookie_file.blob)
            /\ boot' = "restored"
            /\ pc' = "main_try"
            /\ exc' = NoExc
        ELSE IF CreateSessionCatches(e) THEN
            /\ cookie_jar' = RequestsCookieJar
            /\ boot' = "fresh"
            /\ pc' = "main_try"
            /\ exc' = NoExc
        ELSE
            /\ cookie_jar' = cookie_jar
            /\ boot' = "failed"
            /\ pc' = "terminated"
            /\ exc' = [type |-> e, site |-> "_create_session"]
    /\ UNCHANGED <<sleep_secs, diskVars, gwaVars, loginVars, cycleVars>>

\* the process is stopped from outside and started again
Restart ==
    /\ pc # "boot"
    /\ UNCHANGED normVars
    /\ pc' = "boot"
    /\ ProcessCleared
    /\ UNCHANGED diskVars

\* entry of _get_with_auth(u)
CallGet(u) ==
    /\ url' = u
    /\ response' = NoResponse
    /\ first' = NoResponse
    /\ gets' = 0
    /\ logins' = 0
    /\ logged_in' = "none"
    /\ loginFail' = "none"
    /\ results' = {}
    /\ session_token' = FALSE
    /\ pc' = "gwa_get"

\* main: top of the try block; get_usage_data calls _get_with_auth(data_url)
MainFetchData ==
    /\ pc = "main_try"
    /\ UNCHANGED normVars
    /\ CallGet("data")
    /\ exc' = NoExc
    /\ data' = NoPayload
    /\ summary' = NoPayload
    /\ records' = <<>>
    /\ session_reset' = FALSE
    /\ reset_pending' = session_reset
    /\ processed' = "no"
    /\ published' = NotPublished
    /\ UNCHANGED <<cookie_jar, boot, sleep_secs, diskVars>>

\* _get_with_auth: response = self.session.get(url), and the `if`
GwaGet ==
    /\ pc = "gwa_get"
    /\ UNCHANGED normVars
    /\ \/ /\ Raise("ConnectionError", "_get_with_auth")
          /\ gets' = gets + 1
          /\ UNCHANGED <<cookie_jar, response, first>>
       \/ \E resp \in Responses, set \in SUBSET Cookies :
          /\ response' = resp
          /\ first' = resp
          /\ gets' = gets + 1
          /\ cookie_jar' = cookie_jar \cup set
          /\ pc' = IF NeedsAuth(resp) THEN "login_clear" ELSE "gwa_status"
          /\ exc' = exc
    /\ UNCHANGED <<boot, sleep_secs, url, logins, logged_in, diskVars, loginVars, cycleVars>>

\* _do_login returns `val` to _get_with_auth (logged_in = self._do_login())
LoginReturn(val, why) ==
    /\ logged_in' = val
    /\ loginFail' = why
    /\ results' = {}
    /\ session_token' = FALSE
    /\ pc' = "gwa_after_login"
    /\ exc' = exc

\* an exception leaves _do_login
LoginRaise(type, why) ==
    /\ Raise(type, "_do_login")
    /\ loginFail' = why
    /\ UNCHANGED <<logged_in, results, session_token>>

\* an exception raised inside the try block of _do_login
LoginTryRaise(type, why) ==
    IF LoginCatches(type) THEN LoginReturn("false", why) ELSE LoginRaise(type, why)

\* _get_with_auth calls _do_login: self.cookie_jar.clear()
DoLoginClear ==
    /\ pc = "login_clear"
    /\ UNCHANGED normVars
    /\ logins' = logins + 1
    /\ cookie_jar' = RequestsCookieJar
    /\ loginFail' = "none"
    /\ results' = {}
    /\ session_token' = FALSE
    /\ pc' = "login_js"
    /\ UNCHANGED <<boot, sleep_secs, exc, url, response, first, gets, logged_in, diskVars, cycleVars>>

\* _do_login: GET of the login script and the search for the constants
LoginGetScript ==
    /\ pc = "login_js"
    /\ UNCHANGED normVars
    /\ \/ /\ LoginTryRaise("ConnectionError", "network")
          /\ UNCHANGED cookie_jar
       \/ \E found \in ScriptConstants, set \in SUBSET Cookies :
          /\ results' = found
          /\ cookie_jar' = cookie_jar \cup set
          /\ pc' = "login_authn"
          /\ UNCHANGED <<exc, logged_in, loginFail, session_token>>
    /\ UNCHANGED <<boot, sleep_secs, url, response, first, gets, logins, diskVars, cycleVars>>

\* _do_login: POST of the credentials, .json() and ['sessionToken']
LoginPostAuthn ==
    /\ pc = "login_authn"
    /\ UNCHANGED normVars
    /\ \/ /\ LoginTryRaise("ConnectionError", "network")
          /\ UNCHANGED cookie_jar
       \/ \E set \in SUBSET Cookies :
          /\ cookie_jar' = cookie_jar \cup set
          /\ \/ LoginTryRaise("JSONDecodeError", "bad_json")
             \/ LoginTryRaise("KeyError", "no_token")
             \/ /\ session_token' = TRUE
                /\ pc' = "login_authorize"
                /\ UNCHANGED <<exc, logged_in, loginFail, results>>
    /\ UNCHANGED <<boot, sleep_secs, url, response, first, gets, logins, diskVars, cycleVars>>

\* _do_login: the authorize URI is built from results, then
\* response = self.session.get(uri); response.raise_for_status()
LoginAuthorize ==
    /\ pc = "login_authorize"
    /\ UNCHANGED normVars
    /\ IF ~(UriKeys \subseteq results) THEN
            /\ LoginTryRaise("KeyError", "no_constant")
            /\ UNCHANGED cookie_jar
       ELSE
            \/ /\ LoginTryRaise("ConnectionError", "network")
               /\ UNCHANGED cookie_jar
            \/ \E st \in {200, 401, 500}, set \in SUBSET Cookies :
               /\ cookie_jar' = cookie_jar \cup set
               /\ IF RaisesForStatus([status |-> st, body |-> "other"])
                  THEN LoginTryRaise("HTTPError", "http_status")
                  ELSE /\ pc' = "login_check"
                       /\ UNCHANGED <<exc, logged_in, loginFail, results, session_token>>
    /\ UNCHANGED <<boot, sleep_secs, url, response, first, gets, logins, diskVars, cycleVars>>

\* _do_login: the lookup of the login cookie
LoginCheckCookie ==
    /\ pc = "login_check"
    /\ UNCHANGED normVars
    /\ IF HasLoginCookie(cookie_jar)
       THEN /\ pc' = "login_save"
            /\ UNCHANGED <<exc, logged_in, loginFail, results, session_token>>
       ELSE LoginReturn("false", "no_cookie")
    /\ UNCHANGED <<cookie_jar, boot, sleep_secs, url, response, first, gets, logins, diskVars, cycleVars>>

\* _do_login: open(self.cookie_file, 'wb'), pickle.dump, return success
LoginSave ==
    /\ pc = "login_save"
    /\ UNCHANGED normVars
    /\ \/ /\ cookie_file' = PickleFile(cookie_jar)
          /\ saved' = cookie_jar
          /\ writer' = "login"
          /\ LoginReturn("true", "none")
       \/ \* open fails: the file is left as it was
          /\ LoginRaise("OSError", "write")
          /\ UNCHANGED diskVars
       \/ \* open has truncated the file and the dump fails
          /\ cookie_file' = FileCorrupt
          /\ writer' = "partial"
          /\ saved' = RequestsCookieJar
          /\ LoginRaise("OSError", "write")
    /\ UNCHANGED <<cookie_jar, boot, sleep_secs, url, response, first, gets, logins, cycleVars>>

\* _get_with_auth: `if not logged_in: ... response.raise_for_status()`
GwaAfterLogin ==
    /\ pc = "gwa_after_login"
    /\ UNCHANGED normVars
    /\ IF logged_in = "false" /\ RaisesForStatus(response)
       THEN Raise("HTTPError", "_get_with_auth")
       ELSE pc' = "gwa_retry" /\ exc' = exc
    /\ UNCHANGED <<cookie_jar, boot, sleep_secs, diskVars, gwaVars, loginVars, cycleVars>>

\* _get_with_auth: the second response = self.session.get(url)
GwaRetry ==
    /\ pc = "gwa_retry"
    /\ UNCHANGED normVars
    /\ \/ /\ Raise("ConnectionError", "_get_with_auth")
          /\ gets' = gets + 1
          /\ UNCHANGED <<cookie_jar, response>>
       \/ \E resp \in Responses, set \in SUBSET Cookies :
          /\ response' = resp
          /\ gets' = gets + 1
          /\ cookie_jar' = cookie_jar \cup set
          /\ pc' = AfterRetry(resp)
          /\ exc' = exc
    /\ UNCHANGED <<boot, sleep_secs, url, first, logins, logged_in, diskVars, loginVars, cycleVars>>

\* _get_with_auth: response.raise_for_status(); return response
GwaReturn ==
    /\ pc = "gwa_status"
    /\ UNCHANGED normVars
    /\ IF RaisesForStatus(response)
       THEN Raise("HTTPError", "_get_with_auth")
       ELSE /\ pc' = IF url = "data" THEN "fetch_json" ELSE "fetch_summary"
            /\ exc' = exc
    /\ UNCHANGED <<cookie_jar, boot, sleep_secs, diskVars, gwaVars, loginVars, cycleVars>>

\* get_usage_data: data = response1.json(), then _get_with_auth(summary_url)
FetchDataJson ==
    /\ pc = "fetch_json"
    /\ UNCHANGED normVars
    /\ IF response.body = "payload"
       THEN \E d \in {p \in DataPayloads : WellFormed(p)} \cup {NoPayload} :
            /\ data' = d
            /\ CallGet("summary")
            /\ exc' = exc
       ELSE /\ Raise("JSONDecodeError", "get_usage_data")
            /\ UNCHANGED <<data, gwaVars, loginVars>>
    /\ reset_pending' = FALSE
    /\ UNCHANGED <<cookie_jar, boot, sleep_secs, diskVars, summary, records, session_reset, processed, published>>

\* the locals of _get_with_auth and _do_login are gone
LocalsCleared ==
    /\ url' = "none"
    /\ response' = NoResponse
    /\ first' = NoResponse
    /\ gets' = 0
    /\ logins' = 0
    /\ logged_in' = "none"
    /\ loginFail' = "none"
    /\ results' = {}
    /\ session_token' = FALSE

\* get_usage_data: the search for data-usage-url='...' and json.loads
FetchSummary ==
    /\ pc = "fetch_summary"
    /\ UNCHANGED normVars
    /\ IF response.body = "payload"
       THEN \/ \E s \in {p \in SummaryPayloads : WellFormed(p)} \cup {NoPayload} :
               /\ summary' = s
               /\ pc' = "process"
               /\ exc' = exc
               /\ LocalsCleared
            \/ /\ Raise("ValueError", "get_usage_data")
               /\ UNCHANGED <<summary, gwaVars, loginVars>>
       ELSE /\ summary' = NoPayload
            /\ pc' = "process"
            /\ exc' = exc
            /\ LocalsCleared
    /\ UNCHANGED <<cookie_jar, boot, sleep_secs, diskVars, data, records, session_reset, processed, published, reset_pending>>

\* main: records = fetcher.process_data(data, summary)
ProcessData ==
    /\ pc = "process"
    /\ UNCHANGED normVars
    /\ LET r == process_data(data, summary) IN
        /\ IF r.raised # "none"
           THEN /\ Raise(r.raised, "process_data")
                /\ processed' = "raised"
                /\ records' = records
           ELSE /\ pc' = "publish"
                /\ exc' = exc
                /\ processed' = "returned"
                /\ records' = r.records
        /\ session_reset' = r.reset
        /\ cookie_jar' = IF r.reset THEN JarAfterReset(cookie_file) ELSE cookie_jar
        /\ cookie_file' = IF r.reset THEN FileAfterReset(cookie_file) ELSE cookie_file
    /\ UNCHANGED <<boot, sleep_secs, saved, writer, gwaVars, loginVars, data, summary, published, reset_pending>>

\* main: fetcher.publish_data(records); time.sleep(60 * 60)
PublishData ==
    /\ pc = "publish"
    /\ UNCHANGED normVars
    /\ published' = [called |-> TRUE, records |-> records]
    /\ \/ /\ pc' = "sleep"
          /\ sleep_secs' = SleepLong
          /\ exc' = exc
       \/ /\ Raise("InfluxError", "publish_data")
          /\ sleep_secs' = sleep_secs
    /\ UNCHANGED <<cookie_jar, boot, diskVars, gwaVars, loginVars, data, summary, records, session_reset, processed, reset_pending>>

\* main: the except clause; time.sleep(5 * 60)
MainExcept ==
    /\ pc = "main_except"
    /\ UNCHANGED normVars
    /\ IF MainCatches(exc.type)
       THEN pc' = "sleep" /\ sleep_secs' = SleepShort
       ELSE pc' = "terminated" /\ sleep_secs' = sleep_secs
    /\ UNCHANGED <<cookie_jar, boot, exc, diskVars, gwaVars, loginVars, cycleVars>>

\* main: time.sleep returns and the while loop starts the next cycle
SleepDone ==
    /\ pc = "sleep"
    /\ UNCHANGED normVars
    /\ pc' = "main_try"
    /\ sleep_secs' = 0
    /\ boot' = "none"
    /\ UNCHANGED <<cookie_jar, exc, diskVars, gwaVars, loginVars, cycleVars>>

Next ==
    \/ Construct
    \/ Restart
    \/ MainFetchData
    \/ GwaGet
    \/ DoLoginClear
    \/ LoginGetScript
    \/ LoginPostAuthn
    \/ LoginAuthorize
    \/ LoginCheckCookie
    \/ LoginSave
    \/ GwaAfterLogin
    \/ GwaRetry
    \/ GwaReturn
    \/ FetchDataJson
    \/ FetchSummary
    \/ ProcessData
    \/ PublishData
    \/ MainExcept
    \/ SleepDone

Spec == Init /\ [][Next]_vars

TypeOK ==
    /\ cookie_jar \subseteq Cookies
    /\ saved \subseteq Cookies
    /\ gets \in 0..2
    /\ logins \in 0..1
    /\ logged_in \in {"none", "true", "false"}
    /\ sleep_secs \in {0, SleepShort, SleepLong}

----------------------------------------------------------------------------
(* process_data in detail: dates, sizes and the records *)

\* datetime: the proleptic Gregorian calendar
IsLeap(y) == (y % 4 = 0) /\ ((y % 100 # 0) \/ (y % 400 = 0))

DaysInMonth(y, m) ==
    CASE m \in {1, 3, 5, 7, 8, 10, 12} -> 31
      [] m \in {4, 6, 9, 11}           -> 30
      [] OTHER                         -> IF IsLeap(y) THEN 29 ELSE 28

RECURSIVE DaysBeforeMonth(_, _)
DaysBeforeMonth(y, m) == IF m <= 1 THEN 0 ELSE DaysBeforeMonth(y, m - 1) + DaysInMonth(y, m - 1)

\* datetime.toordinal()
Ordinal(y, m, d) ==
    (y - 1) * 365 + ((y - 1) \div 4) - ((y - 1) \div 100) + ((y - 1) \div 400)
        + DaysBeforeMonth(y, m) + d

\* a datetime as hours since the epoch (the model keeps time to the hour)
Hours(dt) == Ordinal(dt.year, dt.month, dt.day) * 24 + dt.hour

\* (a - b).days: a timedelta is normalised so that 0 <= seconds < 86400,
\* hence days is the floor of the difference in days
TimedeltaDays(a, b) ==
    LET h == Hours(a) - Hours(b)
    IN IF h >= 0 THEN h \div 24 ELSE -((-h + 23) \div 24)

\* size strings "<number> <unit>": the number as num/den, or malformed
SizeString(num, den, unit) == [num |-> num, den |-> den, unit |-> unit]
MalformedSize == [num |-> 0, den |-> 0, unit |-> "?"]

\* human2bytes: number * multiplier[unit] with binary multipliers, ParseError
\* on a malformed string. Byte counts are kept in units of 2^20 bytes so that
\* a terabyte fits the integers of the model checker.
Multiplier(unit) ==
    CASE unit = "MB" -> 1
      [] unit = "GB" -> 1024
      [] unit = "TB" -> 1024 * 1024

human2bytes(str) ==
    IF str.den = 0 \/ str.unit \notin {"MB", "GB", "TB"}
    THEN [raised |-> "ParseError", bytes |-> 0]
    ELSE [raised |-> "none", bytes |-> (str.num * Multiplier(str.unit)) \div str.den]

\* gigabytes = 1024 * 1024 * 1024, in units of 2^20 bytes
gigabytes == 1024

\* a float as a fraction num/den
Fraction(num, den) == [num |-> num, den |-> den]

\* a year resolution that moves a December start back whatever the current month
CycleYearsNoPivot(start_month, end_month, current_month, current_year) ==
    IF start_month = 12
    THEN [start |-> current_year - 1, end |-> current_year]
    ELSE IF end_month = 1
    THEN [start |-> current_year, end |-> current_year + 1]
    ELSE [start |-> current_year, end |-> current_year]

\* lines 212-218: the years of service_start and service_end
CycleYears(start_month, end_month, current_month, current_year) ==
    IF start_month = 12 /\ current_month = 1
    THEN [start |-> current_year - 1, end |-> current_year]
    ELSE IF end_month = 1 /\ current_month = 12
    THEN [start |-> current_year, end |-> current_year + 1]
    ELSE [start |-> current_year, end |-> current_year]

\* a year resolution without the branch for a December entry read in January
DataYearNoDecember(data_month, current_month, current_year) ==
    IF current_month = 12 /\ data_month = 1 THEN current_year + 1 ELSE current_year

\* lines 244-252: data_year of a daily entry
DataYear(data_month, current_month, current_year) ==
    IF current_month = 12 /\ data_month = 1 THEN current_year + 1
    ELSE IF current_month = 1 /\ data_month = 12 THEN current_year - 1
    ELSE current_year

\* a test for today's entry that compares the day only
IsTodayByDay(entry, now) == entry.day = now.day

\* line 246: data_day == current_day and data_month == current_month
IsToday(entry, now) == entry.day = now.day /\ entry.month = now.month

\* lines 264-267: the year of last_update_date
UpdateYear(update_month, current_month, current_year) ==
    IF update_month = 12 /\ current_month = 1 THEN current_year - 1
    ELSE IF update_month = 1 /\ current_month = 12 THEN current_year + 1
    ELSE current_year

\* the inputs: current dates
Todays ==
    { [year |-> CurrentYear, month |-> 1,  day |-> 15, hour |-> 12],
      [year |-> CurrentYear, month |-> 6,  day |-> 15, hour |-> 0],
      [year |-> CurrentYear, month |-> 6,  day |-> 15, hour |-> 12],
      [year |-> CurrentYear, month |-> 12, day |-> 15, hour |-> 12] }

\* usageCycle "<Month> <Day> - <Month> <Day>", or a string that does not parse
CycleMonths == {1, 6, 12}
Cycle(sm, em) ==
    [kind |-> "ok",
     start |-> [month |-> sm, day |-> IF sm = em THEN 1 ELSE 15],
     end   |-> [month |-> em, day |-> IF sm = em THEN 30 ELSE 14]]
MalformedCycle == [kind |-> "bad", start |-> [month |-> 0, day |-> 0], end |-> [month |-> 0, day |-> 0]]

\* usageDate: "Usage as of <Month> <Day>", "Usage as of <junk>", or a string
\* without the prefix
UpdateString(kind) == [kind |-> kind, month |-> 12, day |-> 14]

Details(cycle, used, plan, update) ==
    [usageCycle |-> cycle, totalDataUsed |-> used, dataPlan |-> plan,
     percentageDataUsed |-> 40, usageDate |-> update]

\* summaries: every cycle with well-formed fields, and the June cycle with
\* one field malformed at a time
SummaryDetails ==
    { Details(Cycle(sm, em), SizeString(500, 1, "GB"), SizeString(125, 100, "TB"), UpdateString("ok")) :
        sm \in CycleMonths, em \in CycleMonths }
    \cup { Details(MalformedCycle, SizeString(500, 1, "GB"), SizeString(125, 100, "TB"), UpdateString("ok")),
           Details(Cycle(6, 6), MalformedSize, SizeString(125, 100, "TB"), UpdateString("ok")),
           Details(Cycle(6, 6), SizeString(500, 1, "GB"), MalformedSize, UpdateString("ok")),
           Details(Cycle(6, 6), SizeString(500, 1, "GB"), SizeString(125, 100, "TB"), UpdateString("bad_date")),
           Details(Cycle(6, 6), SizeString(500, 1, "GB"), SizeString(125, 100, "TB"), UpdateString("no_prefix")) }

\* graphData entries {'text': 'm/d', 'data': '23'}, or an entry whose text
\* does not parse
Entry(m, d) == [kind |-> "ok", month |-> m, day |-> d, value |-> 23]
Entries ==
    { Entry(11, 14), Entry(12, 14), Entry(12, 15), Entry(1, 14), Entry(1, 15),
      Entry(1, 16), Entry(6, 15),
      [kind |-> "bad", month |-> 0, day |-> 0, value |-> 0] }

Series == UNION { [1..n -> Entries] : n \in 0..MaxSeries }

\* lines 193-234: the three summary records, or the exception
SummaryRecords(sd, now) ==
    LET used == human2bytes(sd.totalDataUsed)
        plan == human2bytes(sd.dataPlan)
    IN IF used.raised # "none" \/ plan.raised # "none"
       THEN [raised |-> "ParseError", start |-> NoDate, end |-> NoDate, records |-> <<>>]
       ELSE IF sd.usageCycle.kind # "ok"
       THEN [raised |-> "ValueError", start |-> NoDate, end |-> NoDate, records |-> <<>>]
       ELSE
        LET years == CycleYears(sd.usageCycle.start.month, sd.usageCycle.end.month, now.month, now.year)
            start == [year |-> years.start, month |-> sd.usageCycle.start.month,
                      day |-> sd.usageCycle.start.day, hour |-> 0]
            end   == [year |-> years.end, month |-> sd.usageCycle.end.month,
                      day |-> sd.usageCycle.end.day, hour |-> 0]
        IN [raised |-> "none", start |-> start, end |-> end,
            records |->
              << [name |-> "current_monthly_usage",
                  service_period |-> sd.usageCycle,
                  current |-> Fraction(used.bytes, gigabytes),
                  remaining |-> Fraction(plan.bytes - used.bytes, gigabytes),
                  total |-> Fraction(plan.bytes, gigabytes),
                  percent_used |-> Fraction(sd.percentageDataUsed, 100)],
                 [name |-> "current_monthly_total",
                  service_period |-> sd.usageCycle,
                  value |-> Fraction(plan.bytes, gigabytes)],
                 [name |-> "cycle_days",
                  remaining |-> TimedeltaDays(end, now),
                  current |-> TimedeltaDays(now, start)] >>]

\* lines 238-255: the loop over graphData
RECURSIVE DailyLoop(_, _)
DailyLoop(series, now) ==
    IF series = <<>> THEN [raised |-> "none", records |-> <<>>]
    ELSE LET e == Head(series) IN
         IF e.kind # "ok" THEN [raised |-> "ValueError", records |-> <<>>]
         ELSE IF IsToday(e, now) THEN [raised |-> "none", records |-> <<>>]
         ELSE LET rest == DailyLoop(Tail(series), now)
                  point == [name |-> "daily_usage",
                            time |-> [year |-> DataYear(e.month, now.month, now.year),
                                      month |-> e.month, day |-> e.day],
                            value |-> e.value]
              IN [raised |-> rest.raised, records |-> <<point>> \o rest.records]

\* lines 257-269: the last_update record
UpdateRecords(sd, now) ==
    IF sd.usageDate.kind = "no_prefix" THEN [raised |-> "none", records |-> <<>>]
    ELSE IF sd.usageDate.kind # "ok" THEN [raised |-> "ValueError", records |-> <<>>]
    ELSE [raised |-> "none",
          records |-> << [name |-> "last_update",
                          value |-> [month |-> sd.usageDate.month, day |-> sd.usageDate.day,
                                     year |-> UpdateYear(sd.usageDate.month, now.month, now.year)]] >>]

\* the variables of the poll loop, which process_data on well-formed
\* error-free payloads does not touch
loopVars ==
    <<cookie_jar, boot, sleep_secs, diskVars, gwaVars, loginVars,
      data, summary, session_reset, processed, published, reset_pending>>

\* process_data is called with payloads that carry no error indicator
InitNorm ==
    /\ pc = "norm_summary"
    /\ cookie_jar = RequestsCookieJar
    /\ cookie_file = FileAbsent
    /\ saved = RequestsCookieJar
    /\ writer = "earlier"
    /\ boot = "none"
    /\ url = "none"
    /\ response = NoResponse
    /\ first = NoResponse
    /\ gets = 0
    /\ logins = 0
    /\ logged_in = "none"
    /\ loginFail = "none"
    /\ results = {}
    /\ session_token = FALSE
    /\ data = NoPayload
    /\ summary = NoPayload
    /\ records = <<>>
    /\ session_reset = FALSE
    /\ processed = "no"
    /\ published = NotPublished
    /\ sleep_secs = 0
    /\ exc = NoExc
    /\ reset_pending = FALSE
    /\ today \in Todays
    /\ summary_data \in SummaryDetails
    /\ usage_data \in Series
    /\ service_start = NoDate
    /\ service_end = NoDate

\* process_data, lines 186-234
NormSummary ==
    /\ pc = "norm_summary"
    /\ LET r == SummaryRecords(summary_data, today) IN
        /\ records' = r.records
        /\ service_start' = r.start
        /\ service_end' = r.end
        /\ IF r.raised # "none"
           THEN pc' = "norm_raised" /\ exc' = [type |-> r.raised, site |-> "process_data"]
           ELSE pc' = "norm_daily" /\ exc' = exc
    /\ UNCHANGED <<today, summary_data, usage_data, loopVars>>

\* process_data, lines 236-255
NormDaily ==
    /\ pc = "norm_daily"
    /\ LET r == DailyLoop(usage_data, today) IN
        IF r.raised # "none"
        THEN /\ pc' = "norm_raised"
             /\ exc' = [type |-> r.raised, site |-> "process_data"]
             /\ records' = records
        ELSE /\ pc' = "norm_update"
             /\ exc' = exc
             /\ records' = records \o r.records
    /\ UNCHANGED <<normVars, loopVars>>

\* process_data, lines 257-271
NormUpdate ==
    /\ pc = "norm_update"
    /\ LET r == UpdateRecords(summary_data, today) IN
        IF r.raised # "none"
        THEN /\ pc' = "norm_raised"
             /\ exc' = [type |-> r.raised, site |-> "process_data"]
             /\ records' = records
        ELSE /\ pc' = "norm_done"
             /\ exc' = exc
             /\ records' = records \o r.records
    /\ UNCHANGED <<normVars, loopVars>>

NextNorm ==
    \/ NormSummary
    \/ NormDaily
    \/ NormUpdate

SpecNorm == InitNorm /\ [][NextNorm]_vars

----------------------------------------------------------------------------
(* Predicates used by the properties *)

\* the jar holds the `_cidt` cookie for domain .cox.com
MarkerHeld == MarkerCookie \in cookie_jar

\* _do_login has just returned to _get_with_auth
LoginReturned == pc = "gwa_after_login"

\* _do_login has just ended, by a return or by an exception
LoginEnded == LoginReturned \/ (pc = "main_except" /\ exc.site = "_do_login")

----------------------------------------------------------------------------
(* Properties *)

\* C1: when the first response of _get_with_auth is a 401, _do_login is
\* invoked exactly once; if it returns true the URL is fetched exactly once
\* more (two GET attempts, one login attempt) and no further login or GET
\* follows, whatever the second response is.
C1_OneLoginOneRetry ==
    first.status = 401 =>
        /\ logins <= 1
        /\ gets <= 2
        /\ pc \in {"login_js", "login_authn", "login_authorize", "login_check",
                   "login_save", "gwa_after_login", "gwa_retry"} => logins = 1 /\ gets = 1
        /\ (logged_in = "true" /\ pc \notin {"gwa_after_login", "gwa_retry"})
                => logins = 1 /\ gets = 2

\* C1 witness: the login succeeded, the retried GET was answered 401 again
\* and the call ended with two GET attempts and one login.
C1_Witness ==
    /\ pc = "main_except"
    /\ exc = [type |-> "HTTPError", site |-> "_get_with_auth"]
    /\ first.status = 401
    /\ logged_in = "true"
    /\ response.status = 401
    /\ gets = 2
    /\ logins = 1

\* C2: if the re-login inside _get_with_auth fails (returns false), the HTTP
\* error of the original response is raised and no second GET is issued, for
\* both triggers (401 status, 200 with the sign-in marker).
C2_FailedLoginSurfacesError ==
    (logged_in = "false" /\ pc # "gwa_after_login")
        => /\ gets = 1
           /\ exc = [type |-> "HTTPError", site |-> "_get_with_auth"]

\* C3: for every way a login can fail (network error, HTTP error status,
\* missing constant, missing session token, missing `_cidt` cookie)
\* _do_login returns false without raising and the jar is empty on return.
C3_FailedLoginReturnsFalseEmpty ==
    (LoginEnded /\ loginFail \in {"network", "http_status", "no_constant", "no_token", "no_cookie"})
        => /\ LoginReturned
           /\ logged_in = "false"
           /\ cookie_jar = {}

\* C4 as claimed: _do_login returns true if and only if the jar holds the
\* `_cidt` cookie for .cox.com after the authorization exchange.
C4_TrueIffMarker ==
    (LoginReturned /\ loginFail \in {"none", "http_status", "no_cookie"})
        => (logged_in = "true" <=> MarkerHeld)

\* C4 as amended: _do_login returns true only if the jar holds the `_cidt`
\* cookie for .cox.com and no request reported an error; when no request
\* reported an error and the cookie is absent it returns false. (The cookie
\* alone does not suffice: an error status of the authorize response makes
\* it return false with the cookie held.)
C4_TrueOnlyWithMarker ==
    /\ (LoginReturned /\ logged_in = "true") => (MarkerHeld /\ loginFail = "none")
    /\ (LoginEnded /\ loginFail \in {"none", "no_cookie", "write"} /\ ~MarkerHeld)
            => (LoginReturned /\ logged_in = "false")
    /\ (LoginReturned /\ loginFail = "http_status") => logged_in = "false"

\* C4 witness: the exchange completed without error, the jar holds other
\* cookies but not the marker, and _do_login returned false.
C4_Witness ==
    /\ LoginReturned
    /\ loginFail = "no_cookie"
    /\ logged_in = "false"
    /\ cookie_jar # {}
    /\ ~MarkerHeld

\* C5: if the summary payload has errorFlag true, process_data returns an
\* empty list and replaces the session by a fresh empty one, for every
\* content of the usage payload (errorFlag true or false, error code and
\* message present or null).
C5_SummaryErrorResets ==
    (/\ processed # "no"
     /\ summary.hasFlag /\ summary.errorFlag
     /\ data.hasFlag /\ ~data.error.isNull)
        => /\ processed = "returned"
           /\ records = <<>>
           /\ session_reset
           /\ cookie_jar = {}

\* C6: in a cycle in which process_data detects a portal-reported error,
\* publish_data is not called.
C6_PublishSkippedOnPortalError == session_reset => ~published.called

\* C7: the poll loop never terminates because of an error: every error of a
\* cycle is caught, followed by the 5 minute sleep and a new cycle; a cycle
\* without error is followed by the 60 minute sleep and a new cycle.
C7_LoopNeverTerminates ==
    [][ /\ pc # "boot" => pc' # "terminated"
        /\ (exc' # exc /\ exc'.type # "none") => pc' = "main_except"
        /\ (pc = "main_except" /\ pc' # "boot") => (pc' = "sleep" /\ sleep_secs' = SleepShort)
        /\ (pc = "publish" /\ pc' \notin {"boot", "main_except"})
                => (pc' = "sleep" /\ sleep_secs' = SleepLong /\ exc'.type = "none")
        /\ (pc = "sleep" /\ pc' # "boot") => pc' = "main_try"
        /\ (pc = "main_try" /\ pc' # "boot") => pc' = "gwa_get"
      ]_vars

\* C7 witness: an error that is not a request error was caught and the
\* process is in the short sleep.
C7_Witness ==
    /\ pc = "sleep"
    /\ sleep_secs = SleepShort
    /\ exc.type \in {"KeyError", "TypeError", "ValueError", "OSError", "InfluxError"}

\* C8: a failure to write the cookie file after the marker cookie was found
\* is non-fatal: _do_login still returns true, the jar keeps its cookies and
\* _get_with_auth goes on to its retry.
C8_WriteFailureNonFatal ==
    loginFail = "write"
        => /\ logged_in = "true"
           /\ MarkerHeld
           /\ exc.type = "none"

\* C9: loading the session at start-up never fails: with the cookie file
\* absent or unreadable _create_session(True) completes without raising and
\* leaves an empty jar, and the first rejected authenticated GET then runs
\* _do_login as a fresh authentication.
C9_LoadNeverFails ==
    [][ /\ (pc = "boot" /\ cookie_file.kind # "pickle")
                => (pc' = "main_try" /\ cookie_jar' = {} /\ exc' = NoExc)
        /\ pc = "boot" => pc' = "main_try"
        /\ (pc = "gwa_get" /\ pc' \notin {"boot", "main_except"} /\ NeedsAuth(response'))
                => pc' = "login_clear"
        /\ (pc = "login_clear" /\ pc' # "boot")
                => (pc' = "login_js" /\ cookie_jar' = {} /\ logins' = logins + 1)
      ]_vars

\* C9 witness: the file was absent at start-up, the first GET of the first
\* cycle was rejected and _do_login is running with an empty jar.
C9_Witness ==
    /\ boot = "fresh"
    /\ cookie_file.kind = "absent"
    /\ url = "data"
    /\ pc = "login_js"
    /\ logins = 1
    /\ cookie_jar = {}

GwaReturned == pc \in {"fetch_json", "fetch_summary"}

\* C14: a malformed byte-size string or an unparseable date string in the
\* payloads (totalDataUsed, dataPlan, usageCycle, a daily entry's date,
\* usageDate) is fatal to the cycle: process_data yields no record list and
\* no record of the cycle is passed to publish_data.
C14_ParseErrorFatal ==
    (/\ processed # "no"
     /\ data.hasFlag /\ ~data.errorFlag /\ data.detail # "missing"
     /\ summary.hasFlag /\ ~summary.errorFlag /\ summary.detail # "missing"
     /\ (summary.detail \in {"malformed", "nodate"} \/ data.detail = "malformed"))
        => /\ processed = "raised"
           /\ ~published.called

\* C15: after construction and after any sequence of _get_with_auth,
\* _do_login (successful or failed) and process_data calls the cookie jar is
\* either empty or contains the `_cidt` marker cookie (here: whenever a
\* _do_login has ended).
C15_JarEmptyOrEstablished == LoginEnded => (cookie_jar = {} \/ MarkerHeld)

C17_ReloginAfterReset ==
    reset_pending =>
        /\ (pc = "gwa_get" /\ url = "data") => cookie_jar = {}
        /\ (pc \in {"gwa_status", "fetch_json"} /\ NeedsAuth(first))
                => (logins = 1 /\ logged_in # "none")
        /\ data = NoPayload

\* C17 witness: in the cycle after a reset the first GET was rejected, the
\* login succeeded and the retried response is about to be decoded.
C17_Witness ==
    /\ reset_pending
    /\ pc = "fetch_json"
    /\ NeedsAuth(first)
    /\ logins = 1
    /\ logged_in = "true"
    /\ response.body = "payload"

\* C19 as claimed: every response _get_with_auth returns has a non-error
\* status and a body without the sign-in marker.
C19_NoExpiredResponseReturned ==
    GwaReturned => (response.status < 400 /\ response.body # "signin")

\* C19 as amended: every response _get_with_auth returns has a non-error
\* status, and a first response that is a 401 or a sign-in page is never
\* returned (a login and the retry come first); a retry answered with an
\* error status raises, but a retry answered 200 with the sign-in page is
\* returned.
C19_ReturnedStatusOk ==
    GwaReturned =>
        /\ response.status \in {200}
        /\ NeedsAuth(first) => (gets = 2 /\ logins = 1)
        /\ response.body = "signin" => gets = 2

\* C19 witness: the login succeeded, the retry was answered 200 with the
\* sign-in page, and that response was returned.
C19_Witness ==
    /\ GwaReturned
    /\ logged_in = "true"
    /\ gets = 2
    /\ response = [status |-> 200, body |-> "signin"]

----------------------------------------------------------------------------
(* Properties of process_data in detail *)

NormSummaryDone == pc \in {"norm_daily", "norm_update", "norm_done"}
NormDailyDone == pc \in {"norm_update", "norm_done"}

DailyPoints == SelectSeq(records, LAMBDA r : r.name = "daily_usage")

\* a calendar date (year, month, day) strictly before another
DateBefore(a, b) ==
    \/ a.year < b.year
    \/ a.year = b.year /\ a.month < b.month
    \/ a.year = b.year /\ a.month = b.month /\ a.day < b.day

MatchesToday(e) == e.kind = "ok" /\ e.month = today.month /\ e.day = today.day

HasTodayEntry == \E k \in 1..Len(usage_data) : MatchesToday(usage_data[k])

FirstTodayEntry == CHOOSE k \in 1..Len(usage_data) :
    MatchesToday(usage_data[k]) /\ \A j \in 1..(k - 1) : ~MatchesToday(usage_data[j])

\* C11: a December start read in January starts last year and ends this year;
\* a January end read in December ends next year and starts this year; in
\* every other case both years are the current year.
C11_CycleYearResolution ==
    NormSummaryDone =>
        LET sm == summary_data.usageCycle.start.month
            em == summary_data.usageCycle.end.month
        IN /\ (sm = 12 /\ today.month = 1) =>
                  (service_start.year = today.year - 1 /\ service_end.year = today.year)
           /\ (em = 1 /\ today.month = 12) =>
                  (service_end.year = today.year + 1 /\ service_start.year = today.year)
           /\ (~(sm = 12 /\ today.month = 1) /\ ~(em = 1 /\ today.month = 12)) =>
                  (service_start.year = today.year /\ service_end.year = today.year)

C11_Witness ==
    /\ NormSummaryDone
    /\ summary_data.usageCycle.start.month = 12
    /\ summary_data.usageCycle.end.month = 1
    /\ today.month = 1
    /\ service_start.year = today.year - 1
    /\ service_end.year = today.year

\* C12: when the series has an entry for today, the daily records are exactly
\* the entries before the first such entry, one each and in series order.
C12_EmitsEntriesBeforeToday ==
    (NormDailyDone /\ HasTodayEntry) =>
        LET k == FirstTodayEntry IN
        /\ Len(DailyPoints) = k - 1
        /\ \A i \in 1..(k - 1) :
            /\ DailyPoints[i].time.month = usage_data[i].month
            /\ DailyPoints[i].time.day = usage_data[i].day
            /\ DailyPoints[i].value = usage_data[i].value

C12_Witness ==
    /\ pc = "norm_done"
    /\ Len(usage_data) = 3
    /\ MatchesToday(usage_data[2])
    /\ usage_data[1].day = today.day
    /\ usage_data[1].month # today.month
    /\ Len(DailyPoints) = 1

\* C13: 500 GB of 1.25 TB, 40 percent, cycle June 1 - June 30, read on June 15
\* at any time of day: current 500, total 1280, remaining 780, percent 40/100,
\* cycle_days current 14 and remaining 15.
C13_JuneScenario ==
    ( /\ NormSummaryDone
      /\ summary_data = Details(Cycle(6, 6), SizeString(500, 1, "GB"),
                                SizeString(125, 100, "TB"), UpdateString("ok"))
      /\ today.month = 6 /\ today.day = 15 ) =>
        /\ records[1].name = "current_monthly_usage"
        /\ records[1].current.num = 500 * records[1].current.den
        /\ records[1].total.num = 1280 * records[1].total.den
        /\ records[1].remaining.num = 780 * records[1].remaining.den
        /\ records[1].percent_used.num * 100 = 40 * records[1].percent_used.den
        /\ records[3].name = "cycle_days"
        /\ records[3].current = 14
        /\ records[3].remaining = 15

\* C18 as stated: for every series and every current date, each daily record
\* is dated strictly before today.
C18_NoRecordAtOrAfterToday ==
    NormDailyDone =>
        \A i \in 1..Len(DailyPoints) : DateBefore(DailyPoints[i].time, today)

\* the month before a month
PreviousMonth(m) == IF m = 1 THEN 12 ELSE m - 1

\* the calendar date of an entry of this month or of the month before
EntryDate(e) ==
    [year |-> IF e.month > today.month THEN today.year - 1 ELSE today.year,
     month |-> e.month, day |-> e.day]

\* a series of well-formed entries of this month and the month before, in
\* strictly increasing date order, with an entry for today
OrderedWindowWithToday ==
    /\ HasTodayEntry
    /\ \A i \in 1..Len(usage_data) :
        /\ usage_data[i].kind = "ok"
        /\ usage_data[i].month \in {today.month, PreviousMonth(today.month)}
    /\ \A i, j \in 1..Len(usage_data) :
        i < j => DateBefore(EntryDate(usage_data[i]), EntryDate(usage_data[j]))

\* C18 amended: for a series in date order that lies in this month and the
\* month before and has an entry for today, each daily record is dated
\* strictly before today.
C18_OrderedSeriesBeforeToday ==
    (NormDailyDone /\ OrderedWindowWithToday) =>
        \A i \in 1..Len(DailyPoints) : DateBefore(DailyPoints[i].time, today)

C18_Witness ==
    /\ pc = "norm_done"
    /\ OrderedWindowWithToday
    /\ today.month = 1
    /\ Len(DailyPoints) = 2
    /\ DailyPoints[1].time.month = 12
    /\ DailyPoints[1].time.year = today.year - 1

====
